---- MODULE Spec2Model ----
(***************************************************************************)
(* A model of cinder/volume/drivers/dmclone/driver.py: the DMClone volume  *)
(* driver, which live-migrates a volume between hosts through a dm-clone   *)
(* overlay.  The model covers the four code paths of the migration state   *)
(* machine: the periodic _migration_monitor, initialize_connection,        *)
(* terminate_connection and create_volume, together with the pure helpers  *)
(* they use (_switch_volumes, the parse of the dm-clone status line).      *)
(*                                                                         *)
(* Failure model: every call to an external collaborator (dmsetup, the     *)
(* metadata volume group, the connector, the RPC layer, the LVM base       *)
(* driver, the target driver) may raise.  Persistence (create, save,       *)
(* refresh, destroy, get_by_id) does not fail, except that looking up an   *)
(* absent record reports VolumeNotFound.                                   *)
(***************************************************************************)
EXTENDS Integers, Sequences, FiniteSets, TLC

\* ------------------------------------------------------------------------
\* Bounds of the model
\* ------------------------------------------------------------------------

\* Number of destination records initialize_connection may create in a run.
MaxDst == 1

\* Number of failures of collaborators in a run.
MaxFaults == 1

\* Number of regions of a clone overlay (the <total> of <hydrated>/<total>).
Regions == 2

\* ------------------------------------------------------------------------
\* Program constants
\* ------------------------------------------------------------------------

\* Seconds of the bounded wait of initialize_connection.
DeadlineSecs == 60

\* Sectors per GiB, the factor of every device-mapper table length.
SectorsPerGiB == 2097152

\* Region size (in sectors) given to the clone target.
RegionSize == 8

\* Index (Python, zero based) of the token the monitor compares with 'clone'.
TypeIdx == 2

\* Index of the token the monitor splits at '/' into hydrated and total.
HydratedIdx == 6

\* Index of the token the monitor compares with '0'.
CountIdx == 7

\* ------------------------------------------------------------------------
\* Tokens of a device-mapper status line
\* ------------------------------------------------------------------------

\* A whitespace-separated token is a number, a pair "a/b" or a word.
Num(n) == [k |-> "num", a |-> n, b |-> 0, w |-> ""]

Pair(x, y) == [k |-> "pair", a |-> x, b |-> y, w |-> ""]

Word(s) == [k |-> "word", a |-> 0, b |-> 0, w |-> s]

\* str.split('/') of one token: a pair gives its two numbers, any other
\* token gives the one-element list holding itself.
SplitSlash(tok) ==
    IF tok.k = "pair" THEN <<Num(tok.a), Num(tok.b)>> ELSE <<tok>>

\* dm_status[i] with Python's zero-based index.
TokAt(dm_status, i) == dm_status[i + 1]

\* The same test reading the positions of the format
\* <start> <length> clone <meta> <hydrated>/<total> <dirty> <errors> ...
MonitorVerdictDocFormat(dm_status) ==
    IF Len(dm_status) <= TypeIdx THEN "raise"
    ELSE IF TokAt(dm_status, TypeIdx) # Word("clone") THEN "skip"
    ELSE IF Len(dm_status) <= 4 THEN "raise"
    ELSE LET hydrated == SplitSlash(TokAt(dm_status, 4)) IN
         IF Len(hydrated) < 2 THEN "raise"
         ELSE IF hydrated[1] # hydrated[2] THEN "continue"
         ELSE IF Len(dm_status) <= 6 THEN "raise"
         ELSE IF TokAt(dm_status, 6) = Num(0) THEN "finalize"
         ELSE "continue"

\* The test without the count: the pair alone decides.
MonitorVerdictPairOnly(dm_status) ==
    IF Len(dm_status) <= TypeIdx THEN "raise"
    ELSE IF TokAt(dm_status, TypeIdx) # Word("clone") THEN "skip"
    ELSE IF Len(dm_status) <= HydratedIdx THEN "raise"
    ELSE LET hydrated == SplitSlash(TokAt(dm_status, HydratedIdx)) IN
         IF Len(hydrated) < 2 THEN "raise"
         ELSE IF hydrated[1] # hydrated[2] THEN "continue"
         ELSE "finalize"

\* The monitor's test of one status line (driver.py 187-208):
\*   "skip"     dm_status[2] != 'clone': log an error and continue
\*   "finalize" hydrated[0] == hydrated[1] and dm_status[7] == '0'
\*   "continue" the condition is false: nothing is done for this volume
\*   "raise"    an IndexError (a token or the second half of the pair is
\*              missing); `and` short-circuits, so dm_status[7] is read only
\*              when the two halves are equal
MonitorVerdict(dm_status) ==
    IF Len(dm_status) <= TypeIdx THEN "raise"
    ELSE IF TokAt(dm_status, TypeIdx) # Word("clone") THEN "skip"
    ELSE IF Len(dm_status) <= HydratedIdx THEN "raise"
    ELSE LET hydrated == SplitSlash(TokAt(dm_status, HydratedIdx)) IN
         IF Len(hydrated) < 2 THEN "raise"
         ELSE IF hydrated[1] # hydrated[2] THEN "continue"
         ELSE IF Len(dm_status) <= CountIdx THEN "raise"
         ELSE IF TokAt(dm_status, CountIdx) = Num(0) THEN "finalize"
         ELSE "continue"

\* The status line the kernel prints for a clone target, as quoted in the
\* driver (driver.py 200-204):
\*   <start> <length> clone <metadata block size> <used>/<total metadata
\*   blocks> <region size> <hydrated>/<total regions> <hydrating regions>
\*   <#feature args> <#core args> hydration_threshold 1
\*   hydration_batch_size 1 <mode>
KernelCloneLine(length, used, metaTotal, hydrated, total, hydrating) ==
    << Num(0), Num(length), Word("clone"), Num(RegionSize),
       Pair(used, metaTotal), Num(RegionSize), Pair(hydrated, total),
       Num(hydrating), Num(0), Num(4), Word("hydration_threshold"), Num(1),
       Word("hydration_batch_size"), Num(1), Word("rw") >>

\* The status line of a linear target: start, length and the type.
LinearLine(length) == << Num(0), Num(length), Word("linear") >>

\* ------------------------------------------------------------------------
\* Volume records
\* ------------------------------------------------------------------------

Hosts == {"hA", "hB"}

\* The user's volume; its id is also its first name_id.
UserIds == {1}

\* migration_status values: a plain word, or target:<id>.
Mig(word) == [k |-> word, id |-> 0]

Target(id) == [k |-> "target", id |-> id]

MigNone == Mig("none")

\* v['migration_status'] and v['migration_status'].startswith('target:')
IsTarget(m) == m.k = "target"

\* The record of a volume that is not in the database.
Absent ==
    [exists |-> FALSE, status |-> "absent", migration_status |-> MigNone,
     name_id |-> 0, host |-> "none", cluster_name |-> "none",
     availability_zone |-> "none", provider_id |-> "none",
     provider_location |-> "none", provider_auth |-> "none",
     provider_geometry |-> "none"]

\* The service record of a host: its cluster and availability zone.
ClusterOf(h) == IF h = "hA" THEN "clusterA" ELSE "clusterB"

ZoneOf(h) == IF h = "hA" THEN "zoneA" ELSE "zoneB"

\* A volume provisioned on host h by the normal path.
UserVolume(id, h) ==
    [exists |-> TRUE, status |-> "available", migration_status |-> MigNone,
     name_id |-> id, host |-> h, cluster_name |-> ClusterOf(h),
     availability_zone |-> ZoneOf(h), provider_id |-> "pid",
     provider_location |-> "loc", provider_auth |-> "auth",
     provider_geometry |-> "geo"]

\* _switch_volumes without tmp: the second assignment of name_id reads
\* the field that was just overwritten instead of tmp.
SwitchVolumesLostTmp(volume, other_volume) ==
    << [volume EXCEPT
          !.name_id = other_volume.name_id,
          !.host = other_volume.host,
          !.cluster_name = other_volume.cluster_name,
          !.availability_zone = other_volume.availability_zone,
          !.provider_id = other_volume.provider_id,
          !.provider_location = other_volume.provider_location,
          !.provider_auth = other_volume.provider_auth,
          !.provider_geometry = other_volume.provider_geometry],
       [other_volume EXCEPT
          !.name_id = other_volume.name_id,
          !.host = volume.host,
          !.cluster_name = volume.cluster_name,
          !.availability_zone = volume.availability_zone,
          !.provider_id = volume.provider_id,
          !.provider_location = volume.provider_location,
          !.provider_auth = volume.provider_auth,
          !.provider_geometry = volume.provider_geometry] >>

\* _switch_volumes (driver.py 95-112): name_id and the seven placement
\* fields are exchanged; the result is the pair (volume, other_volume).
SwitchVolumes(volume, other_volume) ==
    << [volume EXCEPT
          !.name_id = other_volume.name_id,
          !.host = other_volume.host,
          !.cluster_name = other_volume.cluster_name,
          !.availability_zone = other_volume.availability_zone,
          !.provider_id = other_volume.provider_id,
          !.provider_location = other_volume.provider_location,
          !.provider_auth = other_volume.provider_auth,
          !.provider_geometry = other_volume.provider_geometry],
       [other_volume EXCEPT
          !.name_id = volume.name_id,
          !.host = volume.host,
          !.cluster_name = volume.cluster_name,
          !.availability_zone = volume.availability_zone,
          !.provider_id = volume.provider_id,
          !.provider_location = volume.provider_location,
          !.provider_auth = volume.provider_auth,
          !.provider_geometry = volume.provider_geometry] >>

\* The identity of a record: the eight fields _switch_volumes exchanges.
Identity(r) ==
    [name_id |-> r.name_id, host |-> r.host, cluster_name |-> r.cluster_name,
     availability_zone |-> r.availability_zone, provider_id |-> r.provider_id,
     provider_location |-> r.provider_location,
     provider_auth |-> r.provider_auth,
     provider_geometry |-> r.provider_geometry]

\* ------------------------------------------------------------------------
\* State
\* ------------------------------------------------------------------------

\* Number of volumes that are mid-migration on one host in the initial
\* states of SpecTick (the candidates of one monitor tick).
NumCand == 2

\* Ids and names of the model: enough for the candidates of SpecTick with
\* their source records, and for the user's volume with its destinations.
IdCount ==
    IF 2 * NumCand > Cardinality(UserIds) + MaxDst
    THEN 2 * NumCand ELSE Cardinality(UserIds) + MaxDst

AllIds == 1 .. IdCount

VARIABLES
    db,       \* the volume table: id -> record
    dm,       \* device-mapper targets: name_id -> overlay (<name>-handle)
    meta,     \* names whose metadata device <name>-metadata exists in vg0
    lvs,      \* names whose backing logical volume exists
    conn,     \* names of source volumes connected through the connector
    createQ,  \* destination ids whose remote create_volume cast is pending
    delQ,     \* ids whose remote delete_volume cast is pending
    delReq,   \* id -> number of delete_volume requests issued for it
    nextId,   \* the id the next created record gets
    req,      \* the request handler (initialize_/terminate_connection)
    mon,      \* the monitor's tick
    cv,       \* create_volume on the destination host
    cutover,  \* history: names of the overlays the monitor has cut over
    preSwap,  \* history: id -> the last initialize_connection that set the
              \* pointer: the destination, the identity the volume had
              \* then, and whether the swap was made
    line,     \* SpecStatus: the status line under test
    verdict,  \* SpecStatus: the monitor's verdict on it
    recA,     \* SpecSwap: the first record
    recB,     \* SpecSwap: the second record
    recA0,    \* SpecSwap: the first record as drawn
    recB0,    \* SpecSwap: the second record as drawn
    swaps,    \* SpecSwap: number of swaps applied
    faults    \* number of failures of collaborators so far

storeVars == <<db, dm, meta, lvs, conn, createQ, delQ, delReq, nextId>>

histVars == <<cutover, preSwap>>

procVars == <<req, mon, cv>>

statusVars == <<line, verdict>>

swapVars == <<recA, recB, recA0, recB0, swaps>>

pureVars == <<line, verdict, recA, recB, recA0, recB0, swaps>>

quietVars == <<faults, line, verdict, recA, recB, recA0, recB0, swaps>>

vars == <<db, dm, meta, lvs, conn, createQ, delQ, delReq, nextId,
          req, mon, cv, cutover, preSwap,
          line, verdict, recA, recB, recA0, recB0, swaps, faults>>

\* A step in which n calls to collaborators fail: the model follows runs
\* with at most MaxFaults such failures.
Inject(n) ==
    /\ faults + n <= MaxFaults
    /\ faults' = faults + n

\* ------------------------------------------------------------------------
\* Device-mapper targets (DMSetup) and the hydration of a clone target
\* ------------------------------------------------------------------------

NoOverlay ==
    [type |-> "absent", suspended |-> FALSE, inactive |-> "none",
     hydration |-> FALSE, hydrated |-> 0, hydrating |-> 0, src |-> 0]

\* dmsetup create <name> with a linear table onto the local volume.
LinearOverlay == [NoOverlay EXCEPT !.type = "linear"]

\* dmsetup create <name> with the clone table of create_volume: metadata
\* device, local volume, source handle, region size 8, one feature argument
\* no_hydration (driver.py 315-331).
CloneOverlay(srcName) == [NoOverlay EXCEPT !.type = "clone", !.src = srcName]

\* dmsetup status <name>: the whitespace-split status line of the target.
\* Every volume of the model has size 1 GiB.
DmStatusLine(o) ==
    IF o.type = "clone"
    THEN KernelCloneLine(SectorsPerGiB, o.hydrated + 1, SectorsPerGiB,
                         o.hydrated, Regions, o.hydrating)
    ELSE LinearLine(SectorsPerGiB)

\* dmsetup resume <name>: a loaded table becomes the active one.
Resumed(o) ==
    IF o.inactive = "linear"
    THEN [LinearOverlay EXCEPT !.suspended = FALSE]
    ELSE [o EXCEPT !.suspended = FALSE]

\* ------------------------------------------------------------------------
\* Initial state of the driver
\* ------------------------------------------------------------------------

\* No initialize_connection has set a pointer on the volume.
NoSwap == [with |-> 0, identity |-> Identity(Absent), swapped |-> FALSE]

ReqIdle ==
    [pc |-> "idle", op |-> "none", vol |-> 0, chost |-> "none", new |-> 0,
     role |-> MigNone, tries |-> 0, elapsed |-> 0, nstatus |-> "none",
     src |-> 0, srcName |-> 0, volName |-> 0, err |-> "none", out |-> 0,
     dels |-> 0, pre |-> Identity(Absent)]

MonIdle ==
    [pc |-> "idle", host |-> "none", todo |-> <<>>, listed |-> {},
     seen |-> {}, src |-> 0, srcName |-> 0, err |-> "none"]

CvIdle ==
    [pc |-> "idle", vol |-> 0, name |-> 0, role |-> MigNone, src |-> 0,
     srcName |-> 0, bound |-> "none"]

PureInit ==
    /\ line = <<>>
    /\ verdict = "unset"
    /\ recA = Absent
    /\ recB = Absent
    /\ recA0 = Absent
    /\ recB0 = Absent
    /\ swaps = 0

ProcInit ==
    /\ req = ReqIdle
    /\ mon = MonIdle
    /\ cv = CvIdle

\* One volume, provisioned on host hA, nothing attached, no migration.
MainInit ==
    /\ db = [i \in AllIds |-> IF i \in UserIds THEN UserVolume(i, "hA")
                              ELSE Absent]
    /\ dm = [n \in AllIds |-> NoOverlay]
    /\ meta = {}
    /\ lvs = UserIds
    /\ conn = {}
    /\ createQ = {}
    /\ delQ = {}
    /\ delReq = [i \in AllIds |-> 0]
    /\ nextId = Cardinality(UserIds) + 1
    /\ cutover = {}
    /\ preSwap = [i \in AllIds |-> NoSwap]
    /\ faults = 0
    /\ ProcInit

Init == MainInit /\ PureInit

\* ------------------------------------------------------------------------
\* _migration_monitor: one tick of the looping call, step by step
\* ------------------------------------------------------------------------

RECURSIVE SetToSeq(_)
\* The ids of a set in ascending order (the order of the database listing).
SetToSeq(S) ==
    IF S = {} THEN <<>>
    ELSE LET m == CHOOSE x \in S : \A y \in S : x <= y
         IN <<m>> \o SetToSeq(S \ {m})

\* The volumes the tick lists (driver.py 171-178): those of this host whose
\* migration_status starts with 'target:'.
CandidateIds(h) ==
    {i \in AllIds : /\ db[i].exists
                    /\ db[i].host = h
                    /\ IsTarget(db[i].migration_status)}

\* The objects of the listing: what the tick later reads from each of them
\* is its id, its name and the id after 'target:'.
Candidates(h) ==
    LET ids == SetToSeq(CandidateIds(h))
    IN [j \in 1 .. Len(ids) |->
          [id |-> ids[j], name |-> db[ids[j]].name_id,
           tgt |-> db[ids[j]].migration_status.id]]

\* An exception leaves _migration_monitor: the looping call logs it
\* (stop_on_exception=False, driver.py 66-69) and the tick is over.
MonAbort(m, why) == [m EXCEPT !.pc = "end", !.err = why]

\* The for loop goes on to the next volume of the list, or the tick ends.
MonAdvance(m) ==
    [m EXCEPT !.todo = Tail(m.todo), !.src = 0, !.srcName = 0,
              !.pc = IF Tail(m.todo) = <<>> THEN "end" ELSE "status"]

\* driver.py 156-182: the tick starts; without capabilities it returns.
MonStart(h, ready) ==
    /\ mon.pc = "idle"
    /\ mon' = IF ~ready \/ Candidates(h) = <<>>
              THEN [MonIdle EXCEPT !.pc = "end", !.host = h]
              ELSE [MonIdle EXCEPT !.pc = "status", !.host = h,
                                   !.todo = Candidates(h),
                                   !.listed = CandidateIds(h)]
    /\ UNCHANGED <<storeVars, histVars, req, cv, quietVars>>

\* driver.py 183-212: dmsetup status of the volume's overlay and the test.
MonStatus(ok) ==
    /\ Inject(IF ok THEN 0 ELSE 1)
    /\ mon.pc = "status"
    /\ LET c == Head(mon.todo)
           o == dm[c.name]
           m == [mon EXCEPT !.seen = mon.seen \cup {c.id}]
       IN IF ~ok \/ o.type = "absent"
          THEN mon' = MonAbort(m, "status")
          ELSE LET v == MonitorVerdict(DmStatusLine(o))
               IN mon' = CASE v = "finalize" -> [m EXCEPT !.pc = "complete"]
                           [] v = "raise" -> MonAbort(m, "index")
                           [] OTHER -> MonAdvance(m)
    /\ UNCHANGED <<storeVars, histVars, req, cv, pureVars>>

\* The finalization with the metadata device deleted first: the cutover
\* is left out.
MonCompleteThenMeta ==
    /\ mon.pc = "complete"
    /\ LET c == Head(mon.todo)
       IN IF db[c.id].exists
          THEN /\ mon' = [mon EXCEPT
                            !.pc = "meta",
                            !.src = IF db[c.tgt].exists THEN c.tgt ELSE 0,
                            !.srcName = db[c.tgt].name_id]
               /\ db' = [db EXCEPT ![c.id].migration_status =
                                                     Mig("completing")]
          ELSE /\ mon' = MonAbort(mon, "notfound")
               /\ UNCHANGED db
    /\ UNCHANGED <<dm, meta, lvs, conn, createQ, delQ, delReq, nextId,
                   histVars, req, cv, quietVars>>

\* driver.py 213-215: _find_src_volume, then 'completing' is saved.
MonComplete ==
    /\ mon.pc = "complete"
    /\ LET c == Head(mon.todo)
       IN IF db[c.id].exists
          THEN /\ mon' = [mon EXCEPT
                            !.pc = "suspend",
                            !.src = IF db[c.tgt].exists THEN c.tgt ELSE 0,
                            !.srcName = db[c.tgt].name_id]
               /\ db' = [db EXCEPT ![c.id].migration_status =
                                                     Mig("completing")]
          ELSE /\ mon' = MonAbort(mon, "notfound")
               /\ UNCHANGED db
    /\ UNCHANGED <<dm, meta, lvs, conn, createQ, delQ, delReq, nextId,
                   histVars, req, cv, quietVars>>

\* driver.py 220-222: dmsetup suspend.
MonSuspend(ok) ==
    /\ Inject(IF ok THEN 0 ELSE 1)
    /\ mon.pc = "suspend"
    /\ LET c == Head(mon.todo)
       IN IF ok /\ dm[c.name].type # "absent"
          THEN /\ dm' = [dm EXCEPT ![c.name].suspended = TRUE]
               /\ mon' = [mon EXCEPT !.pc = "load"]
          ELSE /\ mon' = MonAbort(mon, "suspend")
               /\ UNCHANGED dm
    /\ UNCHANGED <<db, meta, lvs, conn, createQ, delQ, delReq, nextId,
                   histVars, req, cv, pureVars>>

\* driver.py 223-235: dmsetup load of the linear table.
MonLoad(ok) ==
    /\ Inject(IF ok THEN 0 ELSE 1)
    /\ mon.pc = "load"
    /\ LET c == Head(mon.todo)
       IN IF ok /\ dm[c.name].type # "absent"
          THEN /\ dm' = [dm EXCEPT ![c.name].inactive = "linear"]
               /\ mon' = [mon EXCEPT !.pc = "resume"]
          ELSE /\ mon' = MonAbort(mon, "load")
               /\ UNCHANGED dm
    /\ UNCHANGED <<db, meta, lvs, conn, createQ, delQ, delReq, nextId,
                   histVars, req, cv, pureVars>>

\* The overlays the monitor has cut over: a resume that put a loaded
\* linear table in place adds the overlay's name.
CutoverAfterResume(o, name) ==
    IF o.type = "clone" /\ o.inactive = "linear"
    THEN cutover \cup {name}
    ELSE cutover

\* driver.py 236-238: dmsetup resume, the cutover.
MonResume(ok) ==
    /\ Inject(IF ok THEN 0 ELSE 1)
    /\ mon.pc = "resume"
    /\ LET c == Head(mon.todo)
       IN IF ok /\ dm[c.name].type # "absent"
          THEN /\ dm' = [dm EXCEPT ![c.name] = Resumed(dm[c.name])]
               /\ cutover' = CutoverAfterResume(dm[c.name], c.name)
               /\ mon' = [mon EXCEPT !.pc = "meta"]
          ELSE /\ mon' = MonAbort(mon, "resume")
               /\ UNCHANGED <<dm, cutover>>
    /\ UNCHANGED <<db, meta, lvs, conn, createQ, delQ, delReq, nextId,
                   preSwap, req, cv, pureVars>>

\* driver.py 243-246: the metadata device is deleted.
MonMeta(ok) ==
    /\ Inject(IF ok THEN 0 ELSE 1)
    /\ mon.pc = "meta"
    /\ LET c == Head(mon.todo)
       IN IF ok
          THEN /\ meta' = meta \ {c.name}
               /\ mon' = [mon EXCEPT
                            !.pc = IF mon.src # 0 THEN "disconnect"
                                   ELSE "success"]
          ELSE /\ mon' = MonAbort(mon, "meta")
               /\ UNCHANGED meta
    /\ UNCHANGED <<db, dm, lvs, conn, createQ, delQ, delReq, nextId,
                   histVars, req, cv, pureVars>>

\* driver.py 247 with 132-154: _disconnect_volume(src_volume).  A failure
\* of the connector is caught and logged; remove_export is not guarded.
MonDisconnect(connOk, exportOk) ==
    /\ Inject((IF connOk THEN 0 ELSE 1) + (IF exportOk THEN 0 ELSE 1))
    /\ mon.pc = "disconnect"
    /\ conn' = IF connOk THEN conn \ {mon.srcName} ELSE conn
    /\ mon' = IF exportOk THEN [mon EXCEPT !.pc = "delete"]
              ELSE MonAbort(mon, "export")
    /\ UNCHANGED <<db, dm, meta, lvs, createQ, delQ, delReq, nextId,
                   histVars, req, cv, pureVars>>

\* driver.py 248-254: the deletion of the source is requested.
MonDelete(ok) ==
    /\ Inject(IF ok THEN 0 ELSE 1)
    /\ mon.pc = "delete"
    /\ IF ok
       THEN /\ delReq' = [delReq EXCEPT ![mon.src] = @ + 1]
            /\ delQ' = delQ \cup {mon.src}
            /\ mon' = [mon EXCEPT !.pc = "success"]
       ELSE /\ mon' = MonAbort(mon, "delete")
            /\ UNCHANGED <<delReq, delQ>>
    /\ UNCHANGED <<db, dm, meta, lvs, conn, createQ, nextId,
                   histVars, req, cv, pureVars>>

\* driver.py 256-257: 'success' is saved; the loop goes on.
MonSuccess ==
    /\ mon.pc = "success"
    /\ LET c == Head(mon.todo)
       IN IF db[c.id].exists
          THEN /\ db' = [db EXCEPT ![c.id].migration_status = Mig("success")]
               /\ mon' = MonAdvance(mon)
          ELSE /\ mon' = MonAbort(mon, "notfound")
               /\ UNCHANGED db
    /\ UNCHANGED <<dm, meta, lvs, conn, createQ, delQ, delReq, nextId,
                   histVars, req, cv, quietVars>>

\* The tick is over; the looping call sleeps until the next one.
MonReturn ==
    /\ mon.pc = "end"
    /\ mon' = MonIdle
    /\ UNCHANGED <<storeVars, histVars, req, cv, quietVars>>

MonitorStep ==
    \/ \E h \in Hosts, ready \in BOOLEAN : MonStart(h, ready)
    \/ \E ok \in BOOLEAN : MonStatus(ok)
    \/ MonComplete
    \/ \E ok \in BOOLEAN : MonSuspend(ok)
    \/ \E ok \in BOOLEAN : MonLoad(ok)
    \/ \E ok \in BOOLEAN : MonResume(ok)
    \/ \E ok \in BOOLEAN : MonMeta(ok)
    \/ \E connOk, exportOk \in BOOLEAN : MonDisconnect(connOk, exportOk)
    \/ \E ok \in BOOLEAN : MonDelete(ok)
    \/ MonSuccess
    \/ MonReturn

\* ------------------------------------------------------------------------
\* initialize_connection
\* ------------------------------------------------------------------------

\* The roles the wrong way round.
InitialRoleReversed(status) ==
    IF status = "reserved" THEN Mig("starting")
    ELSE IF status = "in-use" THEN Mig("migrating")
    ELSE MigNone

\* driver.py 401-407: the migration_status the destination is created with.
InitialRole(status) ==
    IF status = "reserved" THEN Mig("migrating")
    ELSE IF status = "in-use" THEN Mig("starting")
    ELSE MigNone

\* driver.py 409-421: the destination record, on the connector's host.
NewVolume(id, h, role) ==
    [exists |-> TRUE, status |-> "creating", migration_status |-> role,
     name_id |-> id, host |-> h, cluster_name |-> ClusterOf(h),
     availability_zone |-> ZoneOf(h), provider_id |-> "none",
     provider_location |-> "none", provider_auth |-> "none",
     provider_geometry |-> "none"]

\* The comparison the wrong way round: the wait ends while time is left.
WaitExpiredInverted(elapsed) == elapsed < DeadlineSecs

\* driver.py 455: time.time() > deadline, with deadline 60 s after the start.
WaitExpired(elapsed) == elapsed > DeadlineSecs

\* driver.py 480: time.sleep(tries ** 2).
Backoff(tries) == tries * tries

\* The handler returns / raises.
ReqDone(r, out) == [r EXCEPT !.pc = "done", !.out = out]

ReqFail(r, err) == [r EXCEPT !.pc = "failed", !.err = err]

\* The volume manager calls the driver for a volume the user can reach.
Callable(v) == v \in UserIds /\ db[v].exists /\ req.pc = "idle"

\* driver.py 366-383: the connector is on the volume's host; a linear
\* target onto the local volume is created and its path returned.
IcLocal(v, h, ok) ==
    /\ Inject(IF ok THEN 0 ELSE 1)
    /\ Callable(v)
    /\ h = db[v].host
    /\ LET r == [ReqIdle EXCEPT !.op = "init_local", !.vol = v, !.chost = h,
                                !.pre = Identity(db[v])]
           name == db[v].name_id
       IN IF ok /\ dm[name].type = "absent"
          THEN /\ dm' = [dm EXCEPT ![name] = LinearOverlay]
               /\ req' = ReqDone(r, name)
          ELSE /\ req' = ReqFail(r, "overlay")
               /\ UNCHANGED dm
    /\ UNCHANGED <<db, meta, lvs, conn, createQ, delQ, delReq, nextId,
                   histVars, mon, cv, pureVars>>

\* driver.py 385-427: the connector is on another host.  The target driver
\* and the service lookup may raise; then the role is chosen and the
\* destination record created.
IcBegin(v, h, ok) ==
    /\ Inject(IF ok THEN 0 ELSE 1)
    /\ Callable(v)
    /\ h # db[v].host
    /\ nextId <= Cardinality(UserIds) + MaxDst
    /\ LET r == [ReqIdle EXCEPT !.op = "init", !.vol = v, !.chost = h,
                                !.pre = Identity(db[v]),
                                !.volName = db[v].name_id]
       IN IF ok
          THEN /\ db' = [db EXCEPT ![nextId] =
                           NewVolume(nextId, h, InitialRole(db[v].status))]
               /\ nextId' = nextId + 1
               /\ req' = [r EXCEPT !.pc = "ic_publish", !.new = nextId,
                                   !.role = InitialRole(db[v].status),
                                   !.nstatus = "creating"]
          ELSE /\ req' = ReqFail(r, "prepare")
               /\ UNCHANGED <<db, nextId>>
    /\ UNCHANGED <<dm, meta, lvs, conn, createQ, delQ, delReq,
                   histVars, mon, cv, pureVars>>

\* The step without the save: the pointer is not written.
IcPublishNotSaved ==
    /\ req.pc = "ic_publish"
    /\ req' = [req EXCEPT !.pc = "ic_rpc"]
    /\ UNCHANGED <<storeVars, histVars, mon, cv, quietVars>>

\* driver.py 429-434: the pointer target:<new id> is saved on the origin.
IcPublish ==
    /\ req.pc = "ic_publish"
    /\ db' = [db EXCEPT ![req.vol].migration_status = Target(req.new)]
    /\ preSwap' = [preSwap EXCEPT ![req.vol] =
                     [with |-> req.new, identity |-> Identity(db[req.vol]),
                      swapped |-> FALSE]]
    /\ req' = [req EXCEPT !.pc = "ic_rpc"]
    /\ UNCHANGED <<dm, meta, lvs, conn, createQ, delQ, delReq, nextId,
                   cutover, mon, cv, quietVars>>

\* driver.py 440-452: the create_volume cast, then the wait starts: the
\* deadline is set and the destination refreshed.
IcRpcCreate(ok) ==
    /\ Inject(IF ok THEN 0 ELSE 1)
    /\ req.pc = "ic_rpc"
    /\ IF ok
       THEN /\ createQ' = createQ \cup {req.new}
            /\ req' = [req EXCEPT !.pc = "ic_loop", !.tries = 0,
                                  !.elapsed = 0,
                                  !.nstatus = db[req.new].status]
       ELSE /\ req' = ReqFail(req, "rpc")
            /\ UNCHANGED createQ
    /\ UNCHANGED <<db, dm, meta, lvs, conn, delQ, delReq, nextId,
                   histVars, mon, cv, pureVars>>

\* driver.py 453-455 and 479-480: one evaluation of the loop condition and
\* of the exit test, then the sleep.
IcLoop ==
    /\ req.pc = "ic_loop"
    /\ req' = IF req.nstatus = "available"
              THEN [req EXCEPT !.pc = "ic_maint"]
              ELSE IF WaitExpired(req.elapsed) \/ req.nstatus = "error"
              THEN [req EXCEPT !.pc = "ic_delete", !.tries = req.tries + 1]
              ELSE [req EXCEPT !.pc = "ic_refresh",
                               !.tries = req.tries + 1,
                               !.elapsed = req.elapsed
                                           + Backoff(req.tries + 1)]
    /\ UNCHANGED <<storeVars, histVars, mon, cv, quietVars>>

\* driver.py 481: new_volume.refresh() after the sleep.
IcRefresh ==
    /\ req.pc = "ic_refresh"
    /\ req' = IF db[req.new].exists
              THEN [req EXCEPT !.pc = "ic_loop",
                               !.nstatus = db[req.new].status]
              ELSE ReqFail(req, "notfound")
    /\ UNCHANGED <<storeVars, histVars, mon, cv, quietVars>>

\* driver.py 456-462: the deletion of the destination is requested;
\* VolumeNotFound is caught, any other exception leaves the handler.
IcDelete(outcome) ==
    /\ Inject(IF outcome = "ok" THEN 0 ELSE 1)
    /\ req.pc = "ic_delete"
    /\ LET r == [req EXCEPT !.dels = req.dels + 1]
       IN CASE outcome = "ok" ->
                 /\ delReq' = [delReq EXCEPT ![req.new] = @ + 1]
                 /\ delQ' = delQ \cup {req.new}
                 /\ req' = [r EXCEPT !.pc = "ic_destroy"]
            [] outcome = "notfound" ->
                 /\ req' = [r EXCEPT !.pc = "ic_destroy"]
                 /\ UNCHANGED <<delReq, delQ>>
            [] OTHER ->
                 /\ req' = ReqFail(r, "rpc")
                 /\ UNCHANGED <<delReq, delQ>>
    /\ UNCHANGED <<db, dm, meta, lvs, conn, createQ, nextId,
                   histVars, mon, cv, pureVars>>

\* driver.py 464: new_volume.destroy().
IcDestroy ==
    /\ req.pc = "ic_destroy"
    /\ IF db[req.new].exists
       THEN /\ db' = [db EXCEPT ![req.new] = Absent]
            /\ req' = [req EXCEPT !.pc = "ic_error"]
       ELSE /\ req' = ReqFail(req, "notfound")
            /\ UNCHANGED db
    /\ UNCHANGED <<dm, meta, lvs, conn, createQ, delQ, delReq, nextId,
                   histVars, mon, cv, quietVars>>

\* The failure path raising one reason for both causes.
IcMarkErrorOneReason ==
    /\ req.pc = "ic_error"
    /\ db' = [db EXCEPT ![req.vol].migration_status = Mig("error")]
    /\ req' = ReqFail(req, "Timeout")
    /\ UNCHANGED <<dm, meta, lvs, conn, createQ, delQ, delReq, nextId,
                   histVars, mon, cv, quietVars>>

\* driver.py 465-478: the origin is marked 'error' and the attach fails;
\* the reason tells a failed creation from a timeout.
IcMarkError ==
    /\ req.pc = "ic_error"
    /\ db' = [db EXCEPT ![req.vol].migration_status = Mig("error")]
    /\ req' = ReqFail(req, IF req.nstatus = "error"
                           THEN "RemoteCreationFailed" ELSE "Timeout")
    /\ UNCHANGED <<dm, meta, lvs, conn, createQ, delQ, delReq, nextId,
                   histVars, mon, cv, quietVars>>

\* driver.py 483-490: the destination is put into 'maintenance'.
IcMaint ==
    /\ req.pc = "ic_maint"
    /\ IF db[req.new].exists
       THEN /\ db' = [db EXCEPT ![req.new].status = "maintenance"]
            /\ req' = [req EXCEPT !.pc = "ic_switch"]
       ELSE /\ req' = ReqFail(req, "notfound")
            /\ UNCHANGED db
    /\ UNCHANGED <<dm, meta, lvs, conn, createQ, delQ, delReq, nextId,
                   histVars, mon, cv, quietVars>>

\* The name the returned device path is built from (driver.py 501-506):
\* _dm_target_name(volume) of the origin object after the swap.
DevicePathName(volumeAfter, volumeBefore) == volumeAfter.name_id

\* driver.py 496-506: the identities are swapped, both records saved, and
\* the path of the overlay returned.
IcSwitch ==
    /\ req.pc = "ic_switch"
    /\ LET pair == SwitchVolumes(db[req.vol], db[req.new])
       IN IF db[req.new].exists
          THEN /\ db' = [db EXCEPT ![req.vol] = pair[1],
                                   ![req.new] = pair[2]]
               /\ preSwap' = [preSwap EXCEPT ![req.vol].swapped = TRUE]
               /\ req' = ReqDone([req EXCEPT !.volName = pair[1].name_id],
                                 DevicePathName(pair[1], db[req.vol]))
          ELSE /\ req' = ReqFail(req, "notfound")
               /\ UNCHANGED <<db, preSwap>>
    /\ UNCHANGED <<dm, meta, lvs, conn, createQ, delQ, delReq, nextId,
                   cutover, mon, cv, quietVars>>

\* The request is over; the manager can call the driver again.
ReqReturn ==
    /\ req.pc \in {"done", "failed"}
    /\ req' = ReqIdle
    /\ UNCHANGED <<storeVars, histVars, mon, cv, quietVars>>

InitializeStep ==
    \/ \E v \in UserIds, h \in Hosts, ok \in BOOLEAN : IcLocal(v, h, ok)
    \/ \E v \in UserIds, h \in Hosts, ok \in BOOLEAN : IcBegin(v, h, ok)
    \/ IcPublish
    \/ \E ok \in BOOLEAN : IcRpcCreate(ok)
    \/ IcLoop
    \/ IcRefresh
    \/ \E outcome \in {"ok", "notfound", "fail"} : IcDelete(outcome)
    \/ IcDestroy
    \/ IcMarkError
    \/ IcMaint
    \/ IcSwitch

\* ------------------------------------------------------------------------
\* terminate_connection
\* ------------------------------------------------------------------------

Connectors == Hosts \cup {"none"}

\* driver.py 587-594: the branches for a volume that is not mid-migration
\* remove the volume's overlay when it is detaching, or is a destination in
\* maintenance created in role 'starting'.
PlainRemoves(rec) ==
    \/ rec.status = "detaching"
    \/ rec.status = "maintenance" /\ rec.migration_status = Mig("starting")

\* The dispatch with the test of the connector left out: a call without a
\* connector takes the live-migration branch.
TcCallUnchecked(v, c) ==
    /\ Callable(v)
    /\ IsTarget(db[v].migration_status)
    /\ LET r == [ReqIdle EXCEPT !.op = "term", !.vol = v, !.chost = c,
                                !.pre = Identity(db[v]),
                                !.volName = db[v].name_id,
                                !.src = db[v].migration_status.id,
                                !.nstatus = db[v].status]
       IN req' = CASE db[v].status = "reserved" ->
                        [r EXCEPT !.pc = "tc_switch", !.op = "rollback"]
                   [] db[v].status = "in-use" /\ c = db[v].host ->
                        [r EXCEPT !.pc = "tc_switch", !.op = "rollback"]
                   [] db[v].status = "in-use" ->
                        [r EXCEPT !.pc = "tc_live", !.op = "live"]
                   [] OTHER -> ReqDone(r, 0)
    /\ UNCHANGED <<storeVars, histVars, mon, cv, quietVars>>

\* terminate_connection with the test of the status detaching as an if of
\* its own instead of an elif of the test for target: the overlay of a
\* detaching volume is removed whatever its migration_status.
TcCallDetachingAlways(v, c) ==
    /\ Callable(v)
    /\ IsTarget(db[v].migration_status)
    /\ LET r == [ReqIdle EXCEPT !.op = "term", !.vol = v, !.chost = c,
                                !.pre = Identity(db[v]),
                                !.volName = db[v].name_id,
                                !.src = db[v].migration_status.id,
                                !.nstatus = db[v].status]
       IN req' = CASE db[v].status = "reserved" ->
                        [r EXCEPT !.pc = "tc_switch", !.op = "rollback"]
                   [] db[v].status = "in-use" /\ c = "none" ->
                        ReqFail(r, "InvalidConnector")
                   [] db[v].status = "in-use" /\ c = db[v].host ->
                        [r EXCEPT !.pc = "tc_switch", !.op = "rollback"]
                   [] db[v].status = "in-use" ->
                        [r EXCEPT !.pc = "tc_live", !.op = "live"]
                   [] OTHER -> ReqDone(r, 0)
    /\ dm' = IF db[v].status = "detaching"
             THEN [dm EXCEPT ![db[v].name_id] = NoOverlay]
             ELSE dm
    /\ UNCHANGED <<db, meta, lvs, conn, createQ, delQ, delReq, nextId,
                   histVars, mon, cv, quietVars>>

\* driver.py 515-519, 540-550, 572: the dispatch on migration_status,
\* status and connector for a volume whose migration_status starts with
\* 'target:'.  A missing connector fails at once; a status other than
\* reserved and in-use matches no branch.
TcCall(v, c) ==
    /\ Callable(v)
    /\ IsTarget(db[v].migration_status)
    /\ LET r == [ReqIdle EXCEPT !.op = "term", !.vol = v, !.chost = c,
                                !.pre = Identity(db[v]),
                                !.volName = db[v].name_id,
                                !.src = db[v].migration_status.id,
                                !.nstatus = db[v].status]
       IN req' = CASE db[v].status = "reserved" ->
                        [r EXCEPT !.pc = "tc_switch", !.op = "rollback"]
                   [] db[v].status = "in-use" /\ c = "none" ->
                        ReqFail(r, "InvalidConnector")
                   [] db[v].status = "in-use" /\ c = db[v].host ->
                        [r EXCEPT !.pc = "tc_switch", !.op = "rollback"]
                   [] db[v].status = "in-use" ->
                        [r EXCEPT !.pc = "tc_live", !.op = "live"]
                   [] OTHER -> ReqDone(r, 0)
    /\ UNCHANGED <<storeVars, histVars, mon, cv, quietVars>>

\* driver.py 587-594: a volume whose migration_status does not start with
\* 'target:'.
TcPlain(v, c, ok) ==
    /\ Inject(IF ok THEN 0 ELSE 1)
    /\ Callable(v)
    /\ ~IsTarget(db[v].migration_status)
    /\ LET r == [ReqIdle EXCEPT !.op = "plain", !.vol = v, !.chost = c,
                                !.pre = Identity(db[v]),
                                !.volName = db[v].name_id,
                                !.nstatus = db[v].status]
       IN IF ~PlainRemoves(db[v])
          THEN /\ req' = ReqDone(r, 0)
               /\ UNCHANGED dm
          ELSE IF ok
          THEN /\ dm' = [dm EXCEPT ![db[v].name_id] = NoOverlay]
               /\ req' = ReqDone(r, 0)
          ELSE /\ req' = ReqFail(r, "overlay")
               /\ UNCHANGED dm
    /\ UNCHANGED <<db, meta, lvs, conn, createQ, delQ, delReq, nextId,
                   histVars, mon, cv, pureVars>>

\* driver.py 521-522 and 553-554: the record named by the pointer is looked
\* up and the identities are swapped back.  When the record is not found
\* src_volume is None and _switch_volumes raises.
TcSwitch ==
    /\ req.pc = "tc_switch"
    /\ LET pair == SwitchVolumes(db[req.vol], db[req.src])
       IN IF db[req.src].exists
          THEN /\ db' = [db EXCEPT ![req.vol] = pair[1],
                                   ![req.src] = pair[2]]
               /\ req' = [req EXCEPT !.pc = "tc_remove",
                                     !.volName = pair[1].name_id,
                                     !.srcName = pair[2].name_id]
          ELSE /\ req' = ReqFail(req, "AttributeError")
               /\ UNCHANGED db
    /\ UNCHANGED <<dm, meta, lvs, conn, createQ, delQ, delReq, nextId,
                   histVars, mon, cv, quietVars>>

\* driver.py 523-525 and 555-557: the overlay named after src_volume is
\* removed.
TcRemove(ok) ==
    /\ Inject(IF ok THEN 0 ELSE 1)
    /\ req.pc = "tc_remove"
    /\ IF ok
       THEN /\ dm' = [dm EXCEPT ![req.srcName] = NoOverlay]
            /\ req' = [req EXCEPT !.pc = "tc_meta"]
       ELSE /\ req' = ReqFail(req, "overlay")
            /\ UNCHANGED dm
    /\ UNCHANGED <<db, meta, lvs, conn, createQ, delQ, delReq, nextId,
                   histVars, mon, cv, pureVars>>

\* driver.py 526-528 and 558-560: the metadata device is deleted.
TcMeta(ok) ==
    /\ Inject(IF ok THEN 0 ELSE 1)
    /\ req.pc = "tc_meta"
    /\ IF ok
       THEN /\ meta' = meta \ {req.srcName}
            /\ req' = [req EXCEPT !.pc = "tc_disconnect"]
       ELSE /\ req' = ReqFail(req, "meta")
            /\ UNCHANGED meta
    /\ UNCHANGED <<db, dm, lvs, conn, createQ, delQ, delReq, nextId,
                   histVars, mon, cv, pureVars>>

\* driver.py 529 and 561 with 132-154: _disconnect_volume(volume).
TcDisconnect(connOk, exportOk) ==
    /\ Inject((IF connOk THEN 0 ELSE 1) + (IF exportOk THEN 0 ELSE 1))
    /\ req.pc = "tc_disconnect"
    /\ conn' = IF connOk THEN conn \ {req.volName} ELSE conn
    /\ req' = IF exportOk THEN [req EXCEPT !.pc = "tc_delete"]
              ELSE ReqFail(req, "export")
    /\ UNCHANGED <<db, dm, meta, lvs, createQ, delQ, delReq, nextId,
                   histVars, mon, cv, pureVars>>

\* driver.py 530-537 and 562-569: the deletion of src_volume is requested.
TcDelete(ok) ==
    /\ Inject(IF ok THEN 0 ELSE 1)
    /\ req.pc = "tc_delete"
    /\ IF ok
       THEN /\ delReq' = [delReq EXCEPT ![req.src] = @ + 1]
            /\ delQ' = delQ \cup {req.src}
            /\ req' = [req EXCEPT !.pc = "tc_clear", !.dels = req.dels + 1]
       ELSE /\ req' = ReqFail(req, "rpc")
            /\ UNCHANGED <<delReq, delQ>>
    /\ UNCHANGED <<db, dm, meta, lvs, conn, createQ, nextId,
                   histVars, mon, cv, pureVars>>

\* driver.py 538-539 and 570-571: migration_status is cleared and saved.
TcClear ==
    /\ req.pc = "tc_clear"
    /\ db' = [db EXCEPT ![req.vol].migration_status = MigNone]
    /\ req' = ReqDone(req, 0)
    /\ UNCHANGED <<dm, meta, lvs, conn, createQ, delQ, delReq, nextId,
                   histVars, mon, cv, quietVars>>

\* driver.py 576-579: the source record is looked up and its connection
\* terminated on its own host, where the driver's terminate_connection
\* takes the branch of lines 587-594 for it.
TcLiveTerminate(ok) ==
    /\ Inject(IF ok THEN 0 ELSE 1)
    /\ req.pc = "tc_live"
    /\ IF ok /\ db[req.src].exists
       THEN /\ dm' = IF /\ ~IsTarget(db[req.src].migration_status)
                        /\ PlainRemoves(db[req.src])
                     THEN [dm EXCEPT ![db[req.src].name_id] = NoOverlay]
                     ELSE dm
            /\ req' = [req EXCEPT !.pc = "tc_mark",
                                  !.srcName = db[req.src].name_id]
       ELSE /\ req' = ReqFail(req, "rpc")
            /\ UNCHANGED dm
    /\ UNCHANGED <<db, meta, lvs, conn, createQ, delQ, delReq, nextId,
                   histVars, mon, cv, pureVars>>

\* The mark written to the volume instead of the source record.
TcLiveMarkOnVolume ==
    /\ req.pc = "tc_mark"
    /\ db' = [db EXCEPT ![req.vol].migration_status = Mig("migrating")]
    /\ req' = [req EXCEPT !.pc = "tc_msg"]
    /\ UNCHANGED <<dm, meta, lvs, conn, createQ, delQ, delReq, nextId,
                   histVars, mon, cv, quietVars>>

\* driver.py 580-581: the source record is marked 'migrating' and saved.
TcLiveMark ==
    /\ req.pc = "tc_mark"
    /\ IF db[req.src].exists
       THEN /\ db' = [db EXCEPT ![req.src].migration_status =
                                                      Mig("migrating")]
            /\ req' = [req EXCEPT !.pc = "tc_msg"]
       ELSE /\ req' = ReqFail(req, "notfound")
            /\ UNCHANGED db
    /\ UNCHANGED <<dm, meta, lvs, conn, createQ, delQ, delReq, nextId,
                   histVars, mon, cv, quietVars>>

\* driver.py 582-586: the enable_hydration message to the volume's overlay.
TcLiveMessage(ok) ==
    /\ Inject(IF ok THEN 0 ELSE 1)
    /\ req.pc = "tc_msg"
    /\ IF ok /\ dm[req.volName].type = "clone"
       THEN /\ dm' = [dm EXCEPT ![req.volName].hydration = TRUE]
            /\ req' = ReqDone(req, 0)
       ELSE /\ req' = ReqFail(req, "overlay")
            /\ UNCHANGED dm
    /\ UNCHANGED <<db, meta, lvs, conn, createQ, delQ, delReq, nextId,
                   histVars, mon, cv, pureVars>>

TerminateStep ==
    \/ \E v \in UserIds, c \in Connectors : TcCall(v, c)
    \/ \E v \in UserIds, c \in Connectors, ok \in BOOLEAN : TcPlain(v, c, ok)
    \/ TcSwitch
    \/ \E ok \in BOOLEAN : TcRemove(ok)
    \/ \E ok \in BOOLEAN : TcMeta(ok)
    \/ \E connOk, exportOk \in BOOLEAN : TcDisconnect(connOk, exportOk)
    \/ \E ok \in BOOLEAN : TcDelete(ok)
    \/ TcClear
    \/ \E ok \in BOOLEAN : TcLiveTerminate(ok)
    \/ TcLiveMark
    \/ \E ok \in BOOLEAN : TcLiveMessage(ok)

\* ------------------------------------------------------------------------
\* create_volume on the destination host
\* ------------------------------------------------------------------------

\* The handler is over: the manager is free for the next cast.
CvEnd == CvIdle

\* An exception inside the try block: the except clause starts.
CvRaise(c) == [c EXCEPT !.pc = "cvx_save"]

\* driver.py 270-274: the manager takes the cast and the base driver
\* creates the logical volume.  Its failure is raised outside the try
\* block; the manager then marks the record 'error'.
CvStart(id, ok) ==
    /\ Inject(IF ok THEN 0 ELSE 1)
    /\ cv.pc = "idle"
    /\ id \in createQ
    /\ createQ' = createQ \ {id}
    /\ IF ~db[id].exists
       THEN UNCHANGED <<db, lvs, cv>>
       ELSE IF ~ok
       THEN /\ db' = [db EXCEPT ![id].status = "error"]
            /\ UNCHANGED <<lvs, cv>>
       ELSE /\ lvs' = lvs \cup {db[id].name_id}
            /\ cv' = [CvIdle EXCEPT
                        !.vol = id, !.name = db[id].name_id,
                        !.role = db[id].migration_status,
                        !.pc = IF db[id].migration_status
                                    \in {Mig("starting"), Mig("migrating")}
                               THEN "cv_find" ELSE "cv_done"]
            /\ UNCHANGED db
    /\ UNCHANGED <<dm, meta, conn, delQ, delReq, nextId,
                   histVars, req, mon, pureVars>>

\* The records whose migration_status is target:<id>.
PointingAt(id) ==
    {u \in AllIds : db[u].exists /\ db[u].migration_status = Target(id)}

\* driver.py 275-294: the source is the first record pointing at this
\* volume; indexing the empty result raises.
CvFind ==
    /\ cv.pc = "cv_find"
    /\ cv' = IF PointingAt(cv.vol) = {}
             THEN CvRaise(cv)
             ELSE LET u == CHOOSE x \in PointingAt(cv.vol) :
                              \A y \in PointingAt(cv.vol) : x <= y
                  IN [cv EXCEPT !.pc = "cv_connect", !.src = u,
                                !.srcName = db[u].name_id]
    /\ UNCHANGED <<storeVars, histVars, req, mon, quietVars>>

\* driver.py 296-303: _get_connector, then connect_volume.  The names
\* connector and src_volume_handle are bound only by the calls that return.
CvConnect(outcome) ==
    /\ Inject(IF outcome = "ok" THEN 0 ELSE 1)
    /\ cv.pc = "cv_connect"
    /\ CASE outcome = "ok" ->
              /\ conn' = conn \cup {cv.srcName}
              /\ cv' = [cv EXCEPT !.pc = "cv_meta", !.bound = "handle"]
         [] outcome = "connect" ->
              /\ cv' = CvRaise([cv EXCEPT !.bound = "connector"])
              /\ UNCHANGED conn
         [] OTHER ->
              /\ cv' = CvRaise(cv)
              /\ UNCHANGED conn
    /\ UNCHANGED <<db, dm, meta, lvs, createQ, delQ, delReq, nextId,
                   histVars, req, mon, pureVars>>

\* driver.py 305-308: the metadata device is allocated.
CvMeta(ok) ==
    /\ Inject(IF ok THEN 0 ELSE 1)
    /\ cv.pc = "cv_meta"
    /\ IF ok /\ cv.name \notin meta
       THEN /\ meta' = meta \cup {cv.name}
            /\ cv' = [cv EXCEPT !.pc = "cv_overlay"]
       ELSE /\ cv' = CvRaise(cv)
            /\ UNCHANGED meta
    /\ UNCHANGED <<db, dm, lvs, conn, createQ, delQ, delReq, nextId,
                   histVars, req, mon, pureVars>>

\* The overlay step without the test of the role: the message follows for
\* every role.
CvOverlayAnyRole(ok) ==
    /\ Inject(IF ok THEN 0 ELSE 1)
    /\ cv.pc = "cv_overlay"
    /\ IF ok /\ dm[cv.name].type = "absent"
       THEN /\ dm' = [dm EXCEPT ![cv.name] = CloneOverlay(cv.srcName)]
            /\ cv' = [cv EXCEPT !.pc = "cv_msg"]
       ELSE /\ cv' = CvRaise(cv)
            /\ UNCHANGED dm
    /\ UNCHANGED <<db, meta, lvs, conn, createQ, delQ, delReq, nextId,
                   histVars, req, mon, pureVars>>

\* driver.py 315-331: the clone overlay is created with no_hydration.
CvOverlay(ok) ==
    /\ Inject(IF ok THEN 0 ELSE 1)
    /\ cv.pc = "cv_overlay"
    /\ IF ok /\ dm[cv.name].type = "absent"
       THEN /\ dm' = [dm EXCEPT ![cv.name] = CloneOverlay(cv.srcName)]
            /\ cv' = [cv EXCEPT
                        !.pc = IF cv.role = Mig("migrating")
                               THEN "cv_msg" ELSE "cv_done"]
       ELSE /\ cv' = CvRaise(cv)
            /\ UNCHANGED dm
    /\ UNCHANGED <<db, meta, lvs, conn, createQ, delQ, delReq, nextId,
                   histVars, req, mon, pureVars>>

\* driver.py 332-337: role 'migrating' enables hydration at once.
CvMessage(ok) ==
    /\ Inject(IF ok THEN 0 ELSE 1)
    /\ cv.pc = "cv_msg"
    /\ IF ok /\ dm[cv.name].type = "clone"
       THEN /\ dm' = [dm EXCEPT ![cv.name].hydration = TRUE]
            /\ cv' = [cv EXCEPT !.pc = "cv_done"]
       ELSE /\ cv' = CvRaise(cv)
            /\ UNCHANGED dm
    /\ UNCHANGED <<db, meta, lvs, conn, createQ, delQ, delReq, nextId,
                   histVars, req, mon, pureVars>>

\* create_volume returns and the manager marks the volume 'available'
\* (driver.py 483-485: new volumes always end up 'available').
CvDone ==
    /\ cv.pc = "cv_done"
    /\ db' = IF db[cv.vol].exists
             THEN [db EXCEPT ![cv.vol].status = "available"] ELSE db
    /\ cv' = CvEnd
    /\ UNCHANGED <<dm, meta, lvs, conn, createQ, delQ, delReq, nextId,
                   histVars, req, mon, quietVars>>

\* driver.py 344-346: the record is marked 'error' twice over and saved.
CvxSave ==
    /\ cv.pc = "cvx_save"
    /\ IF db[cv.vol].exists
       THEN /\ db' = [db EXCEPT ![cv.vol].status = "error",
                                ![cv.vol].migration_status = Mig("error")]
            /\ cv' = [cv EXCEPT !.pc = "cvx_remove"]
       ELSE /\ cv' = CvEnd
            /\ UNCHANGED db
    /\ UNCHANGED <<dm, meta, lvs, conn, createQ, delQ, delReq, nextId,
                   histVars, req, mon, quietVars>>

\* driver.py 347-349: the overlay is removed; an exception here leaves the
\* except clause.
CvxRemove(ok) ==
    /\ Inject(IF ok THEN 0 ELSE 1)
    /\ cv.pc = "cvx_remove"
    /\ IF ok
       THEN /\ dm' = [dm EXCEPT ![cv.name] = NoOverlay]
            /\ cv' = [cv EXCEPT !.pc = "cvx_disconnect"]
       ELSE /\ cv' = CvEnd
            /\ UNCHANGED dm
    /\ UNCHANGED <<db, meta, lvs, conn, createQ, delQ, delReq, nextId,
                   histVars, req, mon, pureVars>>

\* driver.py 350-355: the source is disconnected, errors ignored; the call
\* reads connector and src_volume_handle, which raises when either name
\* was never bound.
CvxDisconnect ==
    /\ cv.pc = "cvx_disconnect"
    /\ IF cv.bound = "handle"
       THEN /\ conn' = conn \ {cv.srcName}
            /\ cv' = [cv EXCEPT !.pc = "cvx_meta"]
       ELSE /\ cv' = CvEnd
            /\ UNCHANGED conn
    /\ UNCHANGED <<db, dm, meta, lvs, createQ, delQ, delReq, nextId,
                   histVars, req, mon, quietVars>>

\* driver.py 356-358: the metadata device is deleted.
CvxMeta(ok) ==
    /\ Inject(IF ok THEN 0 ELSE 1)
    /\ cv.pc = "cvx_meta"
    /\ IF ok
       THEN /\ meta' = meta \ {cv.name}
            /\ cv' = [cv EXCEPT !.pc = "cvx_delete"]
       ELSE /\ cv' = CvEnd
            /\ UNCHANGED meta
    /\ UNCHANGED <<db, dm, lvs, conn, createQ, delQ, delReq, nextId,
                   histVars, req, mon, pureVars>>

\* driver.py 359: the base driver deletes the logical volume; then the
\* original exception is raised again.
CvxDelete(ok) ==
    /\ Inject(IF ok THEN 0 ELSE 1)
    /\ cv.pc = "cvx_delete"
    /\ lvs' = IF ok THEN lvs \ {cv.name} ELSE lvs
    /\ cv' = CvEnd
    /\ UNCHANGED <<db, dm, meta, conn, createQ, delQ, delReq, nextId,
                   histVars, req, mon, pureVars>>

CreateStep ==
    \/ \E id \in AllIds, ok \in BOOLEAN : CvStart(id, ok)
    \/ CvFind
    \/ \E outcome \in {"ok", "connect", "connector"} : CvConnect(outcome)
    \/ \E ok \in BOOLEAN : CvMeta(ok)
    \/ \E ok \in BOOLEAN : CvOverlay(ok)
    \/ \E ok \in BOOLEAN : CvMessage(ok)
    \/ CvDone
    \/ CvxSave
    \/ \E ok \in BOOLEAN : CvxRemove(ok)
    \/ CvxDisconnect
    \/ \E ok \in BOOLEAN : CvxMeta(ok)
    \/ \E ok \in BOOLEAN : CvxDelete(ok)

\* ------------------------------------------------------------------------
\* The environment: the volume API, the kernel, the remote manager
\* ------------------------------------------------------------------------

\* The statuses the API gives a volume the user attaches and detaches.
UserStatuses == {"available", "reserved", "in-use", "detaching"}

\* The API changes the status of the volume between two driver calls.
SetStatus(v, s) ==
    /\ Callable(v)
    /\ db[v].status # s
    /\ db' = [db EXCEPT ![v].status = s]
    /\ UNCHANGED <<dm, meta, lvs, conn, createQ, delQ, delReq, nextId,
                   histVars, procVars, quietVars>>

\* The kernel starts hydrating a region of a clone target.
HydrateStart(n) ==
    /\ dm[n].type = "clone"
    /\ dm[n].hydration
    /\ ~dm[n].suspended
    /\ dm[n].hydrating = 0
    /\ dm' = [dm EXCEPT ![n].hydrating = 1]
    /\ UNCHANGED <<db, meta, lvs, conn, createQ, delQ, delReq, nextId,
                   histVars, procVars, quietVars>>

\* The region is hydrated.
HydrateDone(n) ==
    /\ dm[n].type = "clone"
    /\ dm[n].hydrating = 1
    /\ dm' = [dm EXCEPT ![n].hydrating = 0,
                        ![n].hydrated = IF @ < Regions THEN @ + 1 ELSE @]
    /\ UNCHANGED <<db, meta, lvs, conn, createQ, delQ, delReq, nextId,
                   histVars, procVars, quietVars>>

\* The manager of the volume's host serves a delete_volume cast: the
\* logical volume is removed and the record destroyed.
RemoteDelete(id) ==
    /\ id \in delQ
    /\ delQ' = delQ \ {id}
    /\ IF db[id].exists
       THEN /\ lvs' = lvs \ {db[id].name_id}
            /\ db' = [db EXCEPT ![id] = Absent]
       ELSE UNCHANGED <<lvs, db>>
    /\ UNCHANGED <<dm, meta, conn, createQ, delReq, nextId,
                   histVars, procVars, quietVars>>

EnvStep ==
    \/ \E v \in UserIds, s \in UserStatuses : SetStatus(v, s)
    \/ \E n \in AllIds : HydrateStart(n)
    \/ \E n \in AllIds : HydrateDone(n)
    \/ \E id \in AllIds : RemoteDelete(id)

\* ------------------------------------------------------------------------
\* The driver with its environment
\* ------------------------------------------------------------------------

Next ==
    \/ MonitorStep
    \/ InitializeStep
    \/ TerminateStep
    \/ ReqReturn
    \/ CreateStep
    \/ EnvStep

Spec == Init /\ [][Next]_vars

\* ------------------------------------------------------------------------
\* SpecStatus: the monitor's test applied to status lines
\* ------------------------------------------------------------------------

\* A status line in the format
\*   <start> <length> clone <meta-dev-sectors> <hydrated>/<total>
\*   <dirty-regions> <hydration-errors> 4 hydration_threshold 1
\*   hydration_batch_size 1 rw
DocCloneLine(length, metaSectors, hydrated, total, dirty, errors) ==
    << Num(0), Num(length), Word("clone"), Num(metaSectors),
       Pair(hydrated, total), Num(dirty), Num(errors), Num(4),
       Word("hydration_threshold"), Num(1), Word("hydration_batch_size"),
       Num(1), Word("rw") >>

\* 0 2097152 clone 8 262144/262144 0 0 4 hydration_threshold 1
\* hydration_batch_size 1 rw
DocExampleLine == DocCloneLine(SectorsPerGiB, 8, 262144, 262144, 0, 0)

\* 0 2097152 clone 8 30/262144 8 262144/262144 0 0 4 hydration_threshold 1
\* hydration_batch_size 1 rw   (the example of driver.py 203-204)
KernelExampleLine ==
    KernelCloneLine(SectorsPerGiB, 30, 262144, 262144, 262144, 0)

RegionCounts == {0, 30, 262144}

StatusLines ==
    {KernelCloneLine(SectorsPerGiB, used, 262144, h, t, n) :
        used \in {30, 262144}, h \in RegionCounts,
        t \in {262144, 524288}, n \in {0, 1, 8}}
    \cup {DocCloneLine(SectorsPerGiB, 8, h, t, d, e) :
        h \in RegionCounts, t \in {262144, 524288},
        d \in {0, 8}, e \in {0, 1}}
    \cup {LinearLine(SectorsPerGiB), <<>>}

InitStatus ==
    /\ MainInit
    /\ line \in StatusLines
    /\ verdict = "unset"
    /\ recA = Absent
    /\ recB = Absent
    /\ recA0 = Absent
    /\ recB0 = Absent
    /\ swaps = 0

\* driver.py 187-208 on the line drawn.
ApplyStatusTest ==
    /\ verdict = "unset"
    /\ verdict' = MonitorVerdict(line)
    /\ UNCHANGED <<storeVars, histVars, procVars, faults, line, swapVars>>

SpecStatus == InitStatus /\ [][ApplyStatusTest]_vars

\* ------------------------------------------------------------------------
\* SpecSwap: _switch_volumes applied to two records
\* ------------------------------------------------------------------------

\* Number of swaps applied to the pair.
MaxSwaps == 2

SwapRecords ==
    {[exists |-> TRUE, status |-> "available", migration_status |-> MigNone,
      name_id |-> n, host |-> h, cluster_name |-> ClusterOf(c),
      availability_zone |-> ZoneOf(z), provider_id |-> pi,
      provider_location |-> pl, provider_auth |-> pa,
      provider_geometry |-> pg] :
        n \in {1, 2}, h \in Hosts, c \in Hosts, z \in Hosts,
        pi \in {"none", "pid"}, pl \in {"none", "loc"},
        pa \in {"none", "auth"}, pg \in {"none", "geo"}}

InitSwap ==
    /\ MainInit
    /\ line = <<>>
    /\ verdict = "unset"
    /\ recA \in SwapRecords
    /\ recB \in SwapRecords
    /\ recA0 = recA
    /\ recB0 = recB
    /\ swaps = 0

\* driver.py 95-112 on the pair; both records are saved.
ApplySwitch ==
    /\ swaps < MaxSwaps
    /\ LET pair == SwitchVolumes(recA, recB)
       IN /\ recA' = pair[1]
          /\ recB' = pair[2]
    /\ swaps' = swaps + 1
    /\ UNCHANGED <<storeVars, histVars, procVars, faults, statusVars,
                   recA0, recB0>>

SpecSwap == InitSwap /\ [][ApplySwitch]_vars

\* ------------------------------------------------------------------------
\* SpecTick: the monitor on a host with several volumes mid-migration
\* ------------------------------------------------------------------------

CandIds == 1 .. NumCand

\* The source record paired with candidate i.
SrcOf(i) == NumCand + i

\* Candidate i after initialize_connection's swap: it is on host hB under
\* the destination's name and points at the record that keeps the source.
TickVolume(i) ==
    [UserVolume(i, "hB") EXCEPT
        !.status = "in-use", !.migration_status = Target(SrcOf(i)),
        !.name_id = SrcOf(i), !.provider_id = "none",
        !.provider_location = "none", !.provider_auth = "none",
        !.provider_geometry = "none"]

TickSource(i) ==
    [UserVolume(SrcOf(i), "hA") EXCEPT
        !.status = "maintenance", !.migration_status = Mig("migrating"),
        !.name_id = i]

\* The overlays a candidate can have: a hydrating clone, or none.
TickOverlays(i) ==
    {[CloneOverlay(i) EXCEPT !.hydration = TRUE, !.hydrated = h,
                             !.hydrating = n] :
        h \in 0 .. Regions, n \in 0 .. 1}
    \cup {NoOverlay}

InitTick ==
    /\ db = [i \in AllIds |->
               IF i \in CandIds THEN TickVolume(i)
               ELSE IF i - NumCand \in CandIds THEN TickSource(i - NumCand)
               ELSE Absent]
    /\ dm \in [AllIds -> UNION {TickOverlays(i) : i \in CandIds}
                         \cup {NoOverlay}]
    /\ \A n \in AllIds :
          IF n - NumCand \in CandIds
          THEN dm[n] \in TickOverlays(n - NumCand)
          ELSE dm[n] = NoOverlay
    /\ meta = {SrcOf(i) : i \in CandIds}
    /\ lvs = CandIds \cup {SrcOf(i) : i \in CandIds}
    /\ conn = CandIds
    /\ createQ = {}
    /\ delQ = {}
    /\ delReq = [i \in AllIds |-> 0]
    /\ nextId = 2 * NumCand + 1
    /\ cutover = {}
    /\ preSwap = [i \in AllIds |->
                    IF i \in CandIds
                    THEN [with |-> SrcOf(i),
                          identity |-> Identity(UserVolume(i, "hA")),
                          swapped |-> TRUE]
                    ELSE NoSwap]
    /\ faults = 0
    /\ ProcInit
    /\ PureInit

NextTick ==
    \/ MonitorStep
    \/ \E n \in AllIds : HydrateStart(n)
    \/ \E n \in AllIds : HydrateDone(n)
    \/ \E id \in AllIds : RemoteDelete(id)

SpecTick == InitTick /\ [][NextTick]_vars

\* ------------------------------------------------------------------------
\* Claims
\* ------------------------------------------------------------------------

\* The word of a record's migration_status (target:<id> gives "target").
MigWord(r) == r.migration_status.k

\* The record i changes its migration_status in this step.
MigChanged(i) ==
    /\ db[i].exists
    /\ db'[i].exists
    /\ db'[i].migration_status # db[i].migration_status

\* The record i is created in this step.
Created(i) == ~db[i].exists /\ db'[i].exists

\* The edges of none -> starting|migrating -> target:X -> completing ->
\* success|error.
GraphEdge(a, b) ==
    \/ a = "none" /\ b \in {"starting", "migrating"}
    \/ a \in {"starting", "migrating"} /\ b = "target"
    \/ a = "target" /\ b = "completing"
    \/ a = "completing" /\ b \in {"success", "error"}

\* The writes the driver makes, as edges.  A destination record is created
\* with none, starting or migrating and afterwards changes to migrating
\* (terminate_connection after a live migration) or, from starting or
\* migrating, to error (create_volume failed).  A record the user attaches
\* holds none, target:X, completing, success or error: it changes to
\* target:X (initialize_connection), to error (the wait failed), to none
\* (terminate_connection rolled back), to completing and to success (the
\* monitor); the last four also over a value that another operation wrote
\* meanwhile.
DriverEdge(a, b) ==
    \/ a \in {"none", "starting", "error"} /\ b = "migrating"
    \/ a \in {"starting", "migrating"} /\ b = "error"
    \/ a \in {"none", "target", "completing", "success", "error"}
       /\ b = "target"
    \/ a \in {"target", "completing", "success"} /\ b \in {"error", "none"}
    \/ a \in {"target", "none", "error"} /\ b = "completing"
    \/ a \in {"completing", "none", "target", "error"} /\ b = "success"

\* C1 as stated: every change of a record's migration_status follows an
\* edge of none -> starting|migrating -> target:X -> completing ->
\* success|error (a record created in a role counts as none -> role).
C1_GraphOnly ==
    [][\A i \in AllIds :
         /\ MigChanged(i) => GraphEdge(MigWord(db[i]), MigWord(db'[i]))
         /\ Created(i) =>
              MigWord(db'[i]) \in {"none", "starting", "migrating"}]_vars

\* C1 as amended: every change of a record's migration_status is one of
\* the driver's writes listed in DriverEdge, and a record is created with
\* none, starting or migrating; in particular none -> target:X,
\* target:X -> none, target:X -> error and starting -> migrating are
\* edges, and nothing changes to starting.  The volume the user attaches
\* never holds starting or migrating, and a destination record never holds
\* target:X, completing or success.
C1_DriverEdges ==
    [][\A i \in AllIds :
         /\ MigChanged(i) => DriverEdge(MigWord(db[i]), MigWord(db'[i]))
         /\ Created(i) =>
              MigWord(db'[i]) \in {"none", "starting", "migrating"}
         /\ db'[i].exists =>
              IF i \in UserIds
              THEN MigWord(db'[i]) \notin {"starting", "migrating"}
              ELSE MigWord(db'[i]) \in
                      {"none", "starting", "migrating", "error"}]_vars

\* A migration ran to its end: the volume is 'success' and swapped.
C1_Witness ==
    \E i \in UserIds :
       /\ db[i].migration_status = Mig("success")
       /\ preSwap[i].swapped

\* The overlay reports a clone with every region hydrated and a zero count.
HydrationComplete(o) ==
    o.type = "clone" /\ o.hydrated = Regions /\ o.hydrating = 0

C3_DocPositions ==
    verdict # "unset" =>
       /\ line = DocExampleLine => verdict = "finalize"
       /\ line = KernelExampleLine => verdict # "finalize"

\* C3 as amended: the monitor reads token 6 as the hydrated/total pair and
\* token 7 as the count, the positions of the kernel's dm-clone status
\* line; it finalizes for `0 2097152 clone 8 30/262144 8 262144/262144 0 0
\* 4 ...`, and for `0 2097152 clone 8 262144/262144 0 0 4
\* hydration_threshold ...` it raises (token 6 holds no '/') and does not
\* finalize.  For every clone line it finalizes exactly when token 6 is a
\* pair of equal numbers and token 7 is 0.
C3_KernelPositions ==
    verdict # "unset" =>
       /\ line = KernelExampleLine => verdict = "finalize"
       /\ line = DocExampleLine => verdict = "raise"
       /\ Len(line) > CountIdx /\ line[TypeIdx + 1] = Word("clone") =>
            (verdict = "finalize") =
               (/\ line[HydratedIdx + 1].k = "pair"
                /\ line[HydratedIdx + 1].a = line[HydratedIdx + 1].b
                /\ line[CountIdx + 1] = Num(0))

\* The test finalized for the kernel's example line.
C3_Witness == verdict = "finalize" /\ line = KernelExampleLine

\* C4: after an odd number of swaps each record holds the other's original
\* identity (name_id and the seven placement fields), after an even number
\* both hold their own again; no other field changes.
C4_SwapInvolution ==
    /\ swaps % 2 = 1 =>
         /\ Identity(recA) = Identity(recB0)
         /\ Identity(recB) = Identity(recA0)
    /\ swaps % 2 = 0 => recA = recA0 /\ recB = recB0
    /\ recA.status = recA0.status
    /\ recA.migration_status = recA0.migration_status
    /\ recA.exists = recA0.exists
    /\ recB.status = recB0.status
    /\ recB.migration_status = recB0.migration_status
    /\ recB.exists = recB0.exists

\* Two records that differ in all eight fields were swapped twice.
C4_Witness ==
    /\ swaps = 2
    /\ recA0.name_id # recB0.name_id
    /\ recA0.host # recB0.host
    /\ recA0.cluster_name # recB0.cluster_name
    /\ recA0.availability_zone # recB0.availability_zone
    /\ recA0.provider_id # recB0.provider_id
    /\ recA0.provider_location # recB0.provider_location
    /\ recA0.provider_auth # recB0.provider_auth
    /\ recA0.provider_geometry # recB0.provider_geometry

\* C5: the wait of initialize_connection is left by the failure path, for
\* a destination that is not in error, only when 60 s or more have passed;
\* a call that fails with the timeout error has waited 60 s or more and
\* has requested the deletion of the destination exactly once, and no
\* deletion is requested while the wait goes on.
C5_BoundedWait ==
    req.op = "init" =>
       /\ req.pc \in {"ic_delete", "ic_destroy", "ic_error"}
          /\ req.nstatus # "error" => req.elapsed >= DeadlineSecs
       /\ req.pc = "failed" /\ req.err = "Timeout" =>
            /\ req.elapsed >= DeadlineSecs
            /\ req.nstatus \notin {"available", "error"}
            /\ req.dels = 1
       /\ req.pc \in {"ic_destroy", "ic_error"} => req.dels = 1
       /\ req.pc \in {"ic_loop", "ic_refresh", "ic_delete"} => req.dels = 0

\* The call failed with the timeout error.
C5_Witness ==
    /\ req.op = "init"
    /\ req.pc = "failed"
    /\ req.err = "Timeout"
    /\ req.dels = 1

\* C6: when initialize_connection comes from another host, the
\* destination record is created on the connector's host in status
\* 'creating' with role migrating if the volume is reserved, starting if
\* it is in-use and none otherwise; the call returns only for a
\* destination that reached 'available', and then the destination is in
\* 'maintenance', the two records have exchanged their identities, and the
\* returned path is built from the volume's name_id after the swap.
C6_RemoteAttach ==
    [][/\ \A i \in AllIds : Created(i) =>
            /\ req'.op = "init"
            /\ req'.new = i
            /\ req'.chost # db[req'.vol].host
            /\ db'[i].host = req'.chost
            /\ db'[i].status = "creating"
            /\ db'[i].migration_status =
                 (CASE db[req'.vol].status = "reserved" -> Mig("migrating")
                    [] db[req'.vol].status = "in-use" -> Mig("starting")
                    [] OTHER -> MigNone)
       /\ req.op = "init" /\ req.new # 0
          /\ req.pc # "done" /\ req'.pc = "done" =>
            /\ req.nstatus = "available"
            /\ db'[req.new].status = "maintenance"
            /\ Identity(db'[req.vol]) = Identity(db[req.new])
            /\ Identity(db'[req.new]) = Identity(db[req.vol])
            /\ Identity(db[req.vol]) = req.pre
            /\ req'.out = db'[req.vol].name_id
            /\ req'.out # req.pre.name_id]_vars

\* A remote attach of an in-use volume returned the path of the swapped
\* volume and left a destination created in role starting.
C6_Witness ==
    /\ req.op = "init"
    /\ req.pc = "done"
    /\ req.role = Mig("starting")
    /\ req.out = db[req.vol].name_id
    /\ db[req.new].status = "maintenance"

\* C7: when terminate_connection returns for a volume that was reserved
\* with migration_status target:X, the volume's migration_status is none,
\* its name_id and placement are the ones it had before the attach that
\* set the pointer, and the deletion of X has been requested.
C7_RollbackRestores ==
    [][/\ req.op = "rollback"
       /\ req.nstatus = "reserved"
       /\ req.pc # "done"
       /\ req'.pc = "done"
       => /\ db'[req.vol].migration_status = MigNone
          /\ delReq'[req.src] > 0
          /\ Identity(db'[req.vol]) = preSwap[req.vol].identity]_vars

\* C8: when initialize_connection ends with an error the volume has the
\* identity it had at the call and its backing volume exists with no
\* deletion pending; and the deletion of a record that carries the name of
\* the volume's source backing volume (the name the volume had when the
\* pointer was set) is requested only when the overlay of the destination
\* has been cut over to a direct mapping.
C8_SourceKeptUntilCutover ==
    [][/\ req.op = "init" /\ req.pc # "failed" /\ req'.pc = "failed" =>
            /\ Identity(db'[req.vol]) = req.pre
            /\ req.pre.name_id \in lvs'
            /\ \A i \in delQ' : db'[i].name_id # req.pre.name_id
       /\ \A v \in UserIds, i \in AllIds :
            /\ delReq'[i] > delReq[i]
            /\ preSwap[v].with # 0
            /\ db[i].name_id = preSwap[v].identity.name_id
            => preSwap[v].with \in cutover]_vars

\* C9: when a step of the finalization fails (suspend, load, resume,
\* metadata deletion, source disconnect or deletion), the volume's overlay
\* is an active clone mapping and its migration_status is target:<id>.
C9_FailedFinalizationRetryable ==
    [][/\ mon.pc \in {"suspend", "load", "resume", "meta", "disconnect",
                      "delete"}
       /\ mon'.pc = "end"
       => LET c == Head(mon.todo)
          IN /\ db'[c.id].migration_status = Target(c.tgt)
             /\ dm'[c.name].type = "clone"
             /\ ~dm'[c.name].suspended]_vars

\* C10: a failure on one candidate does not end the tick: when the tick is
\* over, every volume it listed has been inspected.
C10_TickInspectsAll ==
    mon.pc = "end" => mon.listed \subseteq mon.seen

\* C11: terminate_connection for a volume that is in-use with
\* migration_status target:<id>, called without a connector, fails in its
\* first step with the invalid-connector error and changes nothing: no
\* record, overlay, metadata device, backing volume or connection, and no
\* remote call is queued.
C11_NoConnectorNoChange ==
    [][/\ req.pc = "idle"
       /\ req'.op \in {"term", "rollback", "live"}
       /\ req'.chost = "none"
       /\ db[req'.vol].status = "in-use"
       /\ IsTarget(db[req'.vol].migration_status)
       => /\ req'.pc = "failed"
          /\ req'.err = "InvalidConnector"
          /\ storeVars' = storeVars]_vars

\* A call without a connector failed for an in-use volume mid-migration.
C11_Witness ==
    /\ req.pc = "failed"
    /\ req.err = "InvalidConnector"
    /\ req.chost = "none"
    /\ db[req.vol].status = "in-use"
    /\ IsTarget(db[req.vol].migration_status)

\* C12: hydration of an overlay is enabled only by create_volume for role
\* migrating, as the step that follows the creation of the overlay, or by
\* the last step of a terminate_connection that was called for an in-use
\* volume with migration_status target:<id> and a connector on another
\* host; create_volume for role starting ends after creating the overlay
\* without sending the message; and that terminate_connection first
\* terminates the source's connection remotely, then marks the source
\* record migrating, then sends the message.
C12_HydrationAtConfirmedPoint ==
    [][/\ \A n \in AllIds :
            dm'[n].hydration /\ ~dm[n].hydration =>
               \/ /\ cv.pc = "cv_msg"
                  /\ cv.name = n
                  /\ cv.role = Mig("migrating")
               \/ /\ req.pc = "tc_msg"
                  /\ req.op = "live"
                  /\ req.volName = n
                  /\ req.nstatus = "in-use"
                  /\ req.chost \in Hosts
                  /\ req.chost # req.pre.host
       /\ cv.pc = "cv_overlay" /\ cv'.pc # "cv_overlay"
          /\ dm'[cv.name] # dm[cv.name] =>
            /\ cv.role = Mig("migrating") => cv'.pc = "cv_msg"
            /\ cv.role = Mig("starting") => cv'.pc = "cv_done"
       /\ req'.pc = "tc_live" /\ req.pc # "tc_live" =>
            /\ db[req'.vol].status = "in-use"
            /\ IsTarget(db[req'.vol].migration_status)
            /\ req'.chost \in Hosts
            /\ req'.chost # db[req'.vol].host
       /\ req'.pc = "tc_mark" /\ req.pc # "tc_mark" => req.pc = "tc_live"
       /\ req'.pc = "tc_msg" /\ req.pc # "tc_msg" =>
            /\ req.pc = "tc_mark"
            /\ db'[req.src].migration_status = Mig("migrating")]_vars

\* The overlay of a destination created in role starting hydrates after
\* the terminate_connection of a live migration sent the message.
C12_Witness ==
    /\ req.op = "live"
    /\ req.pc = "done"
    /\ dm[req.volName].type = "clone"
    /\ dm[req.volName].hydration
    /\ db[req.src].exists
    /\ db[req.src].migration_status = Mig("migrating")

\* The record the pointer of record i names does not exist.
Dangling(i) ==
    /\ db[i].exists
    /\ IsTarget(db[i].migration_status)
    /\ ~db[db[i].migration_status.id].exists

\* The order of the writes of a remote initialize_connection: the pointer
\* target:X is saved on a record only when record X exists, and the
\* create_volume cast for X is issued by the attach that created X, after
\* its pointer was saved, when X exists or its deletion was requested by a
\* monitor, and the origin holds target:X, or completing or success
\* written over it by a monitor.
PublishedInOrder ==
    /\ \A i \in AllIds :
          MigChanged(i) /\ IsTarget(db'[i].migration_status) =>
             db[db'[i].migration_status.id].exists
    /\ \A x \in createQ' \ createQ :
          /\ req.op = "init" /\ req.pc = "ic_rpc" /\ req.new = x
          /\ db[x].exists \/ delReq[x] > 0
          /\ req.vol \in AllIds
          /\ \/ db[req.vol].migration_status = Target(x)
             \/ MigWord(db[req.vol]) \in {"completing", "success"}

\* C13 as stated: the destination is persisted before the pointer, both
\* before the creation cast; and in every state a pointer target:<id>
\* names an existing record, and create_volume of the destination finds a
\* record pointing at it.
C13_PointerNeverDangles ==
    [][/\ PublishedInOrder
       /\ \A i \in AllIds : ~Dangling(i)'
       /\ cv.pc = "cv_find" /\ cv' # cv => PointingAt(cv.vol) # {}]_vars

\* C13 as amended: the destination is persisted before the pointer and
\* both before the creation cast.  A pointer target:<id> names a missing
\* record only after the deletion of that record was requested or while
\* the failure path of the wait, which destroys the destination before it
\* marks the origin error, is between these two writes.  While the attach
\* is between the cast and the end of its wait the origin holds the
\* pointer unless a monitor has written completing or success over it;
\* create_volume finds the origin exactly when a record holds the pointer,
\* so a creation served after the attach gave up finds none.
C13_PointerInOrder ==
    [][/\ PublishedInOrder
       /\ \A i \in AllIds : Dangling(i)' =>
            LET x == db'[i].migration_status.id
            IN \/ delReq'[x] > 0
               \/ req'.op = "init" /\ req'.pc = "ic_error" /\ req'.new = x
       /\ req'.op = "init"
          /\ req'.pc \in {"ic_loop", "ic_refresh", "ic_delete",
                          "ic_destroy", "ic_error", "ic_maint",
                          "ic_switch"} =>
            \/ db'[req'.vol].migration_status = Target(req'.new)
            \/ MigWord(db'[req'.vol]) \in {"completing", "success"}
       /\ cv.pc = "cv_find" /\ cv' # cv =>
            (cv'.pc = "cv_connect") = (PointingAt(cv.vol) # {})]_vars

\* create_volume of the destination has found the origin through the
\* pointer while the attach waits.
C13_Witness ==
    /\ req.op = "init"
    /\ req.pc \in {"ic_loop", "ic_refresh"}
    /\ cv.pc = "cv_connect"
    /\ cv.vol = req.new
    /\ cv.src = req.vol
    /\ db[req.vol].migration_status = Target(req.new)
    /\ db[req.new].exists

C15_RolledBackBeforeError ==
    [][/\ req.op = "init"
       /\ req.new # 0
       /\ req.pc # "failed"
       /\ req'.pc = "failed"
       => /\ ~db'[req.new].exists
          /\ db'[req.vol].migration_status # Target(req.new)]_vars

\* C16: when create_volume for a record in role starting or migrating
\* ends after a failure, the record (if it still exists) is saved with
\* status error and migration_status error, and everything the call had
\* set up is undone: no overlay, no metadata device and no backing volume
\* of the record's name, and the source not connected.
C16_CreateUndoneOnFailure ==
    [][/\ cv.pc \in {"cvx_save", "cvx_remove", "cvx_disconnect",
                     "cvx_meta", "cvx_delete"}
       /\ cv'.pc = "idle"
       => /\ db'[cv.vol].exists =>
               /\ db'[cv.vol].status = "error"
               /\ db'[cv.vol].migration_status = Mig("error")
          /\ dm'[cv.name].type = "absent"
          /\ cv.name \notin meta'
          /\ cv.name \notin lvs'
          /\ cv.srcName # 0 => cv.srcName \notin conn']_vars

\* The step of the monitor goes from position a to position b.
MonGoes(a, b) == mon.pc = a /\ mon'.pc = b

\* C18: the finalization of a volume takes its steps in one order:
\* completing is saved, the overlay is suspended, the linear table is
\* loaded, the overlay is resumed, the metadata device is deleted, the
\* source, if its record was found, is disconnected and its deletion
\* requested, and success is saved; a step that fails ends the tick.  The
\* metadata device is deleted and the deletion of the source requested
\* only when the overlay is no clone mapping any more, and success is
\* saved with the metadata device gone.
C18_FinalizationOrder ==
    [][LET c == Head(mon.todo)
       IN /\ mon.pc = "complete" /\ mon' # mon =>
               \/ MonGoes("complete", "end")
               \/ /\ MonGoes("complete", "suspend")
                  /\ db'[c.id].migration_status = Mig("completing")
          /\ mon.pc = "suspend" /\ mon' # mon =>
               \/ MonGoes("suspend", "end")
               \/ (MonGoes("suspend", "load") /\ dm'[c.name].suspended)
          /\ mon.pc = "load" /\ mon' # mon =>
               \/ MonGoes("load", "end")
               \/ /\ MonGoes("load", "resume")
                  /\ dm'[c.name].inactive = "linear"
          /\ mon.pc = "resume" /\ mon' # mon =>
               \/ MonGoes("resume", "end")
               \/ /\ MonGoes("resume", "meta")
                  /\ dm'[c.name].type = "linear"
                  /\ ~dm'[c.name].suspended
          /\ mon.pc = "meta" /\ mon' # mon =>
               \/ MonGoes("meta", "end")
               \/ /\ MonGoes("meta", IF mon.src # 0 THEN "disconnect"
                                     ELSE "success")
                  /\ dm[c.name].type # "clone"
                  /\ c.name \notin meta'
          /\ mon.pc = "disconnect" /\ mon' # mon =>
               \/ MonGoes("disconnect", "end")
               \/ MonGoes("disconnect", "delete")
          /\ mon.pc = "delete" /\ mon' # mon =>
               \/ MonGoes("delete", "end")
               \/ /\ MonGoes("delete", "success")
                  /\ dm[c.name].type # "clone"
                  /\ delReq'[mon.src] = delReq[mon.src] + 1
          /\ mon.pc = "success" /\ mon' # mon =>
               \/ (MonGoes("success", "end") /\ mon'.err # "none")
               \/ /\ mon'.pc \in {"status", "end"}
                  /\ db'[c.id].migration_status = Mig("success")
                  /\ c.name \notin meta
                  /\ dm[c.name].type # "clone"
          /\ mon'.pc = "suspend" => mon.pc \in {"complete", "suspend"}
          /\ mon'.pc = "load" => mon.pc \in {"suspend", "load"}
          /\ mon'.pc = "resume" => mon.pc \in {"load", "resume"}
          /\ mon'.pc = "meta" => mon.pc \in {"resume", "meta"}
          /\ mon'.pc = "disconnect" => mon.pc \in {"meta", "disconnect"}
          /\ mon'.pc = "delete" => mon.pc \in {"disconnect", "delete"}
          /\ mon'.pc = "success" =>
               mon.pc \in {"delete", "success"}
               \/ (mon.pc = "meta" /\ mon.src = 0)]_vars

\* A finalization ran through: success is saved, the overlay is the
\* linear mapping, the metadata device is gone and the deletion of the
\* source was requested.
C18_Witness ==
    /\ mon.pc \in {"status", "end"}
    /\ mon.err = "none"
    /\ mon.src = 0
    /\ \E i \in UserIds :
          /\ db[i].migration_status = Mig("success")
          /\ dm[db[i].name_id].type = "linear"
          /\ db[i].name_id \notin meta
          /\ db[i].name_id \in cutover
          /\ delReq[preSwap[i].with] > 0

\* ------------------------------------------------------------------------
\* The driver from the state after a remote attach
\* ------------------------------------------------------------------------

\* The volume was attached on host hB and is in use there: its record has
\* the destination's identity and points at the record that keeps the
\* source on hA, the clone overlay is in place.  One more destination
\* record can be created.
InitPair ==
    /\ db = [i \in AllIds |->
               IF i \in UserIds THEN TickVolume(i)
               ELSE IF i - NumCand \in UserIds THEN TickSource(i - NumCand)
               ELSE Absent]
    /\ dm = [n \in AllIds |->
               IF n - NumCand \in UserIds
               THEN [CloneOverlay(n - NumCand) EXCEPT !.hydration = TRUE]
               ELSE NoOverlay]
    /\ meta = {SrcOf(i) : i \in UserIds}
    /\ lvs = UserIds \cup {SrcOf(i) : i \in UserIds}
    /\ conn = UserIds
    /\ createQ = {}
    /\ delQ = {}
    /\ delReq = [i \in AllIds |-> 0]
    /\ nextId = Cardinality(UserIds) + 1
    /\ cutover = {}
    /\ preSwap = [i \in AllIds |->
                    IF i \in UserIds
                    THEN [with |-> SrcOf(i),
                          identity |-> Identity(UserVolume(i, "hA")),
                          swapped |-> TRUE]
                    ELSE NoSwap]
    /\ faults = 0
    /\ ProcInit
    /\ PureInit

\* The requests on the attached volume and what they set off on the other
\* host, between two ticks of the monitor.
NextPair ==
    \/ InitializeStep
    \/ TerminateStep
    \/ ReqReturn
    \/ CreateStep
    \/ \E v \in UserIds, s \in UserStatuses : SetStatus(v, s)
    \/ \E id \in AllIds : RemoteDelete(id)

SpecPair == InitPair /\ [][NextPair]_vars

\* The record i holds the pointer of the pair (i, x).
Points(d, i, x) == d[i].exists /\ d[i].migration_status = Target(x)

\* C17: from the step of initialize_connection that saves target:<id> in
\* the volume's record to the end of that migration (the monitor saves
\* completing, a rollback clears the status, a failed attach saves
\* error), exactly one record of the pair holds target:<id of the
\* other>: the two never point at each other, and the pointer of a record
\* goes away only by one of the three ends.
C17_PairInvariant ==
    [][\A i \in AllIds :
          /\ \A x \in AllIds : ~(Points(db', i, x) /\ Points(db', x, i))
          /\ \A x \in AllIds :
                Points(db, i, x) /\ ~Points(db', i, x) =>
                   \/ /\ mon.pc = "complete"
                      /\ Head(mon.todo).id = i
                      /\ db'[i].migration_status = Mig("completing")
                   \/ /\ req.pc = "tc_clear"
                      /\ req.vol = i
                      /\ db'[i].migration_status = Mig("none")
                   \/ /\ req.pc = "ic_error"
                      /\ req.vol = i
                      /\ db'[i].migration_status = Mig("error")]_vars

\* ------------------------------------------------------------------------
\* The driver with restarts of the volume service
\* ------------------------------------------------------------------------

\* The volume service stops in the middle of a tick of the monitor and is
\* started again: what the tick held in memory is lost, the records, the
\* overlays and the devices stay, and check_for_setup_error starts a new
\* looping call (driver.py 61-69).  No request is at work in the service.
\* The stop counts among the failures of the run.
Restart ==
    /\ mon.pc \notin {"idle", "end"}
    /\ req.pc \in {"idle", "done", "failed"}
    /\ cv.pc = "idle"
    /\ Inject(1)
    /\ mon' = MonIdle
    /\ UNCHANGED <<storeVars, histVars, req, cv, pureVars>>

NextRestart ==
    \/ Next
    \/ Restart

\* A request that was received runs on to its end.
ReqProgress ==
    /\ req.pc # "idle"
    /\ InitializeStep \/ TerminateStep \/ ReqReturn

\* A create_volume that was started runs on to its end.
CvProgress ==
    /\ cv.pc # "idle"
    /\ CreateStep

\* The looping call fires every ten seconds and a tick takes its steps:
\* the monitor is scheduled fairly, and so are the handlers at work.
SpecRestart ==
    /\ Init
    /\ [][NextRestart]_vars
    /\ WF_vars(MonitorStep)
    /\ WF_vars(ReqProgress)
    /\ WF_vars(CvProgress)

\* C19: the monitor resumes a finalization that was cut off: a volume
\* whose record holds completing (its hydration was complete and the
\* finalization began) eventually holds success, unless it is rolled back
\* or deleted.
C19_ResumedToSuccess ==
    \A i \in UserIds :
       (db[i].exists /\ db[i].migration_status = Mig("completing"))
          ~> \/ ~db[i].exists
             \/ db[i].migration_status \in {Mig("success"), Mig("none")}

\* The monitor is inside the finalization of its candidate: completing is
\* saved, success is not.
MonFinalizing ==
    mon.pc \in {"suspend", "load", "resume", "meta", "disconnect",
                "delete", "success"}

\* The request is inside a rollback: the identities are swapped back, the
\* status is not cleared yet.
ReqRollingBack ==
    /\ req.op = "rollback"
    /\ req.pc \in {"tc_remove", "tc_meta", "tc_disconnect", "tc_delete",
                   "tc_clear"}

\* C20: the overlay of a volume is changed by one operation at a time: the
\* monitor is never inside the finalization of a volume while a
\* terminate_connection is inside the rollback of the same volume, which
\* removes the same overlay and metadata device; and a migration_status
\* success or completing of a volume is never replaced by the rollback's
\* cleared status, nor the other way round.
C20_OverlayCriticalSection ==
    [][/\ ~(/\ MonFinalizing
            /\ ReqRollingBack
            /\ req.vol = Head(mon.todo).id
            /\ req.srcName = Head(mon.todo).name)
       /\ \A i \in UserIds :
             /\ ~(/\ db[i].migration_status \in
                                        {Mig("completing"), Mig("success")}
                  /\ db'[i].migration_status = Mig("none"))
             /\ ~(/\ db[i].migration_status = Mig("none")
                  /\ db'[i].migration_status \in
                                        {Mig("completing"), Mig("success")})
      ]_vars

\* C21: a failure while a volume is disconnected, of the connector's
\* disconnect or of the removal of the remote export, does not stop the
\* operation: the finalization goes on to request the deletion of the
\* source, the rollback goes on to request the deletion of the
\* destination, and the connector's failure leaves the connection as it
\* was.
C21_DisconnectNeverFatal ==
    [][/\ mon.pc = "disconnect" /\ mon' # mon =>
             /\ mon'.pc = "delete"
             /\ mon'.err = "none"
       /\ req.pc = "tc_disconnect" /\ req' # req =>
             /\ req'.pc = "tc_delete"
             /\ req'.err = "none"]_vars

\* The request takes a step of a rollback in which no collaborator fails.
RollbackStep(pc) ==
    /\ req.op = "rollback"
    /\ req.pc = pc
    /\ req' # req
    /\ faults' = faults

\* C22: a terminate_connection that rolls a migration back (status
\* reserved, or in-use with the connector on the volume's host) removes
\* the overlay, then the metadata device, then requests the deletion of
\* the remote record, and does so whether or not the overlay and the
\* metadata device are still there; the cleanup can be repeated: in every
\* rollback of an attach that had swapped the identities the overlay
\* removed is the destination's and the record whose deletion is requested
\* carries the destination's backing volume, not the origin's.
C22_CleanupOrdered ==
    [][/\ RollbackStep("tc_switch") /\ req'.pc # "failed" =>
             req'.pc = "tc_remove"
       /\ RollbackStep("tc_remove") =>
             /\ req'.pc = "tc_meta"
             /\ dm'[req.srcName] = NoOverlay
             /\ meta' = meta
             /\ delReq' = delReq
             /\ preSwap[req.vol].swapped =>
                   req.srcName = preSwap[req.vol].with
       /\ RollbackStep("tc_meta") =>
             /\ req'.pc = "tc_disconnect"
             /\ req.srcName \notin meta'
             /\ delReq' = delReq
       /\ RollbackStep("tc_disconnect") => req'.pc = "tc_delete"
       /\ RollbackStep("tc_delete") =>
             /\ req'.pc = "tc_clear"
             /\ delReq'[req.src] = delReq[req.src] + 1
             /\ preSwap[req.vol].swapped /\ db[req.src].exists =>
                   db[req.src].name_id = preSwap[req.vol].with
       /\ req'.op = "rollback" /\ req'.pc = "tc_meta" =>
             req.pc \in {"tc_remove", "tc_meta"}
       /\ req'.op = "rollback" /\ req'.pc = "tc_delete" =>
             req.pc \in {"tc_disconnect", "tc_delete"}]_vars

\* The request that begins in this step is a terminate_connection for v.
TerminateBegins(v) ==
    /\ req.pc = "idle"
    /\ req'.pc # "idle"
    /\ req'.op \in {"term", "rollback", "live", "plain"}
    /\ req'.vol = v

\* C23: a terminate_connection for a volume whose migration_status is
\* target:<id> and whose status is neither reserved nor in-use returns at
\* once and changes no record, overlay, metadata device, connection or
\* queue of remote calls; the plain removal of the overlay (status
\* detaching, or maintenance with migration_status starting) happens only
\* for a volume whose migration_status is no pointer.
C23_TargetOtherStatusNoop ==
    [][\A v \in UserIds :
          /\ /\ TerminateBegins(v)
             /\ IsTarget(db[v].migration_status)
             /\ db[v].status \notin {"reserved", "in-use"}
             => /\ req'.pc = "done"
                /\ req'.err = "none"
                /\ UNCHANGED storeVars
          /\ TerminateBegins(v) /\ dm' # dm =>
                /\ ~IsTarget(db[v].migration_status)
                /\ \/ db[v].status = "detaching"
                   \/ /\ db[v].status = "maintenance"
                      /\ db[v].migration_status = Mig("starting")
                /\ dm' = [dm EXCEPT ![db[v].name_id] = NoOverlay]]_vars

\* A terminate_connection for a detaching volume that holds a pointer has
\* returned; the volume's overlay is still there.
C23_Witness ==
    /\ req.pc = "done"
    /\ req.op = "term"
    /\ req.nstatus = "detaching"
    /\ req.vol \in UserIds
    /\ IsTarget(db[req.vol].migration_status)
    /\ db[req.vol].status = "detaching"
    /\ dm[db[req.vol].name_id].type = "clone"

====
